---- MODULE Spec2Model ----
(***************************************************************************)
(* State-machine model of the word-search store of wordframe.ai            *)
(* (src/src/lib/word-search-store.ts): the zustand store, the asynchronous *)
(* generatePuzzle operation with its suspension points, and the grid       *)
(* placement helpers.                                                      *)
(*                                                                         *)
(* Conventions.  Rows and columns are 0-based as in the source.  A word is *)
(* a sequence of one-letter strings.  A grid is a function                 *)
(* [0..H-1 -> [0..W-1 -> cell]].  Word entries are objects that the store  *)
(* and a running generatePuzzle share by reference: they live in `heap`    *)
(* and are named by their index.  Grid cells of a run are shared between   *)
(* the run's local grid and the store's grid (the store copies the rows,   *)
(* not the cells), so the store's grid is kept as a reference to the run.  *)
(* Lengths of paper are kept in tenths of a millimetre so that the default *)
(* density of 2.5 characters per mm is the integer 25.                     *)
(***************************************************************************)
EXTENDS Integers, Sequences, FiniteSets, TLC

\* ------------------------------------------------------------------ bounds
MaxLightPixels == 2
MaxWords == 2
MaxObjects == 3
MaxCells == 2
MaxBatchLightPixels == 1

\* ------------------------------------------------------- program constants
DefaultCharactersPerMm == 25
DefaultPaperWidth == 2100
DefaultPaperHeight == 2970
CoverageTenths == 4
MinGeneratedLength == 3
MaxGeneratedLength == 8
FillUpdateEvery == 50

\* ------------------------------------------------------------------ inputs
\* Letters a Math.random() draw is taken from (a two-letter cut of A..Z).
RandLetters == {"A", "Z"}

\* Words the user may supply (PuzzleBuilder upper-cases and trims them).
UserWords == { <<"A", "B">>, <<"C", "A", "T">>, <<"C", "A", "T", "S">> }

\* Words the supplier may return (random-words: 3..12 letters, upper-cased).
SupplierWords == { <<"T", "A", "B">>, <<"B", "A", "T", "S">> }

\* Paper sizes <<width, height>> the user may select, in tenths of a mm: at
\* the default density they give grids of 0x0, 3x3, 5x1, 1x5, 4x2 and 2x4
\* cells, and the degenerate sizes 0x3, -3x3 and 3x-3.
PaperFormats ==
  { <<0, 0>>, <<75, 75>>, <<125, 25>>, <<25, 125>>, <<100, 50>>, <<50, 100>>,
    <<0, 75>>, <<-75, 75>>, <<75, -75>> }

Runs == {1, 2}

NoError == "null"

Directions == <<"horizontal", "vertical", "diagonal-down", "diagonal-up">>

\* ----------------------------------------------------------------- helpers
Min(a, b) == IF a < b THEN a ELSE b

Max(a, b) == IF a < b THEN b ELSE a

Range(s) == { s[i] : i \in DOMAIN s }

RECURSIVE SeqsUpTo(_, _)
\* All sequences without repetition of at most n elements of S.
SeqsUpTo(S, n) ==
  IF n = 0 THEN { <<>> }
  ELSE LET shorter == SeqsUpTo(S, n - 1)
       IN shorter \cup { Append(s, x) : s \in { t \in shorter : Len(t) = n - 1 },
                                        x \in S }

DistinctSeqs(S, n) == { s \in SeqsUpTo(S, n) : Cardinality(Range(s)) = Len(s) }

\* ------------------------------------------------------------ grid values
EmptyCell == [letter |-> "", isWordLetter |-> FALSE, wordIds |-> <<>>]

\* Array(h).fill(null).map(() => Array(w).fill(null).map(() => empty cell))
EmptyGrid(h, w) == [r \in 0..(h - 1) |-> [c \in 0..(w - 1) |-> EmptyCell]]

GridHeightOf(g) == Cardinality(DOMAIN g)

GridWidthOf(g) == IF DOMAIN g = {} THEN 0 ELSE Cardinality(DOMAIN g[0])

Cells(g) == { <<r, c>> : r \in DOMAIN g, c \in 0..(GridWidthOf(g) - 1) }

\* Per-step row/column delta of a direction (the four switch statements).
DeltaRow(direction) ==
  CASE direction = "horizontal" -> 0
    [] direction = "vertical" -> 1
    [] direction = "diagonal-down" -> 1
    [] direction = "diagonal-up" -> -1

DeltaCol(direction) ==
  CASE direction = "horizontal" -> 1
    [] direction = "vertical" -> 0
    [] direction = "diagonal-down" -> 1
    [] direction = "diagonal-up" -> 1

\* 0-based character index i of the word placed from (startRow, startCol).
CellRow(startRow, direction, i) == startRow + i * DeltaRow(direction)

CellCol(startCol, direction, i) == startCol + i * DeltaCol(direction)

\* ------------------------------------------------------- placement helpers
\* canPlaceWord: bounds, mask and letter agreement, cell by cell.
canPlaceWord(word, startRow, startCol, direction, grid, availablePositions) ==
  \A i \in 0..(Len(word) - 1) :
    LET row == CellRow(startRow, direction, i)
        col == CellCol(startCol, direction, i)
    IN /\ row >= 0 /\ row < GridHeightOf(grid)
       /\ col >= 0 /\ col < GridWidthOf(grid)
       /\ availablePositions[row][col]
       /\ ~(grid[row][col].letter # "" /\ grid[row][col].letter # word[i + 1])

\* calculateOverlap: footprint cells that already hold the word's letter.
calculateOverlap(word, startRow, startCol, direction, grid) ==
  Cardinality({ i \in 0..(Len(word) - 1) :
    LET cell == grid[CellRow(startRow, direction, i)][CellCol(startCol, direction, i)]
    IN cell.letter # "" /\ cell.letter = word[i + 1] })

\* Faulty variant: every cell of the word receives the word's first letter.
PlaceLetterFirst(word, row, col, i, grid) ==
  [grid EXCEPT ![row][col] =
     [letter |-> word[1], isWordLetter |-> TRUE,
      wordIds |-> Append(grid[row][col].wordIds, Len(word))]]

\* One pass of the loop body of placeWordInGrid for character i.
PlaceLetter(word, row, col, i, grid) ==
  LET cell == grid[row][col]
  IN IF cell.letter = "" \/ cell.letter = word[i + 1]
     THEN [grid EXCEPT ![row][col] =
             [letter |-> word[i + 1],
              isWordLetter |-> TRUE,
              wordIds |-> IF Len(word) \in Range(cell.wordIds)
                          THEN cell.wordIds
                          ELSE Append(cell.wordIds, Len(word))]]
     ELSE grid

RECURSIVE PlaceFrom(_, _, _, _, _, _)
PlaceFrom(word, startRow, startCol, direction, grid, i) ==
  IF i >= Len(word) THEN grid
  ELSE PlaceFrom(word, startRow, startCol, direction,
                 PlaceLetter(word, CellRow(startRow, direction, i),
                             CellCol(startCol, direction, i), i, grid),
                 i + 1)

\* Faulty variant: the first letter of the word is not written.
placeWordInGridShort(word, startRow, startCol, direction, grid) ==
  PlaceFrom(word, startRow, startCol, direction, grid, 1)

\* placeWordInGrid(word, {row, col}, direction, grid): the grid afterwards.
placeWordInGrid(word, startRow, startCol, direction, grid) ==
  PlaceFrom(word, startRow, startCol, direction, grid, 0)

\* ---------------------------------------------------- the placement scan
RECURSIVE RunLength(_, _, _, _, _, _, _)
\* Number of consecutive available empty cells from (row, col) stepping by
\* (dr, dc), counted from step i; stops at the border or the first other cell.
RunLength(row, col, dr, dc, grid, availablePositions, i) ==
  LET r == row + i * dr
      c == col + i * dc
  IN IF /\ r >= 0 /\ r < GridHeightOf(grid)
        /\ c >= 0 /\ c < GridWidthOf(grid)
        /\ availablePositions[r][c]
        /\ grid[r][c].letter = ""
     THEN 1 + RunLength(row, col, dr, dc, grid, availablePositions, i + 1)
     ELSE 0

findContiguousLengths(row, col, grid, availablePositions) ==
  [horizontal |-> RunLength(row, col, 0, 1, grid, availablePositions, 0),
   vertical |-> RunLength(row, col, 1, 0, grid, availablePositions, 0),
   diagonalDown |-> RunLength(row, col, 1, 1, grid, availablePositions, 0),
   diagonalUp |-> RunLength(row, col, -1, 1, grid, availablePositions, 0)]

NoLengths == [horizontal |-> 0, vertical |-> 0, diagonalDown |-> 0, diagonalUp |-> 0]

MaxLengthOf(lengths) ==
  Max(Max(lengths.horizontal, lengths.vertical),
      Max(lengths.diagonalDown, lengths.diagonalUp))

RECURSIVE InsertByLengthDesc(_, _, _)
\* Insert id x into the sequence s (sorted by word length, longest first)
\* behind every entry at least as long: Array.prototype.sort is stable.
InsertByLengthDesc(s, x, objs) ==
  IF s = <<>> THEN <<x>>
  ELSE IF Len(objs[Head(s)].word) >= Len(objs[x].word)
       THEN <<Head(s)>> \o InsertByLengthDesc(Tail(s), x, objs)
       ELSE <<x>> \o s

RECURSIVE SortByLengthDesc(_, _)
SortByLengthDesc(s, objs) ==
  IF s = <<>> THEN <<>>
  ELSE InsertByLengthDesc(SortByLengthDesc(SubSeq(s, 1, Len(s) - 1), objs),
                          s[Len(s)], objs)

\* A word fits when some direction's run is at least as long as the word.
FitsLengths(wordLength, lengths) ==
  \/ lengths.horizontal >= wordLength
  \/ lengths.vertical >= wordLength
  \/ lengths.diagonalDown >= wordLength
  \/ lengths.diagonalUp >= wordLength

\* findSuitableWords(words, lengths): ids of the fitting words, longest first.
findSuitableWords(ids, lengths, objs) ==
  SortByLengthDesc(
    SelectSeq(ids, LAMBDA x : FitsLengths(Len(objs[x].word), lengths)), objs)

getBestDirectionForWord(wordLength, lengths, preferredOrientation) ==
  IF preferredOrientation = "horizontal" /\ lengths.horizontal >= wordLength
  THEN "horizontal"
  ELSE IF preferredOrientation = "vertical" /\ lengths.vertical >= wordLength
  THEN "vertical"
  ELSE IF preferredOrientation = "diagonal" /\ lengths.diagonalDown >= wordLength
  THEN "diagonal-down"
  ELSE IF preferredOrientation = "diagonal" /\ lengths.diagonalUp >= wordLength
  THEN "diagonal-up"
  ELSE IF lengths.horizontal >= wordLength THEN "horizontal"
  ELSE IF lengths.vertical >= wordLength THEN "vertical"
  ELSE IF lengths.diagonalDown >= wordLength THEN "diagonal-down"
  ELSE IF lengths.diagonalUp >= wordLength THEN "diagonal-up"
  ELSE "horizontal"

getNextOrientation(current) ==
  CASE current = "horizontal" -> "vertical"
    [] current = "vertical" -> "diagonal"
    [] current = "diagonal" -> "horizontal"

\* ------------------------------------------------- breadth-first searches
NoPosition == [row |-> -1, col |-> -1]

\* Faulty variant: the diagonal steps are missing.
NeighborSteps8Cardinal == << <<-1, 0>>, <<1, 0>>, <<0, -1>>, <<0, 1>> >>

\* The eight steps of findNearestEmptyNeighbor, in the order of the source.
NeighborSteps8 ==
  << <<-1, 0>>, <<1, 0>>, <<0, -1>>, <<0, 1>>,
     <<-1, -1>>, <<-1, 1>>, <<1, -1>>, <<1, 1>> >>

\* The four steps of floodFillWithRandomLetters.
NeighborSteps4 == << <<-1, 0>>, <<1, 0>>, <<0, -1>>, <<0, 1>> >>

InGrid(r, c, grid) ==
  r >= 0 /\ r < GridHeightOf(grid) /\ c >= 0 /\ c < GridWidthOf(grid)

\* Neighbours of (row, col) along `steps`, in order, as <<row, col>> pairs.
NeighborSeq(row, col, steps) ==
  [k \in 1..Len(steps) |-> <<row + steps[k][1], col + steps[k][2]>>]

RECURSIVE NearestFrom(_, _, _, _, _)
\* The while loop of findNearestEmptyNeighbor over its queue and visited set.
NearestFrom(queue, seen, grid, availablePositions, visitedPositions) ==
  IF queue = <<>> THEN NoPosition
  ELSE
    LET head == Head(queue)
        fresh == SelectSeq(NeighborSeq(head.row, head.col, NeighborSteps8),
                           LAMBDA p : InGrid(p[1], p[2], grid) /\ p \notin seen)
        added == [k \in 1..Len(fresh) |->
                    [row |-> fresh[k][1], col |-> fresh[k][2],
                     distance |-> head.distance + 1]]
    IN IF /\ head.distance > 0
          /\ availablePositions[head.row][head.col]
          /\ grid[head.row][head.col].letter = ""
          /\ <<head.row, head.col>> \notin visitedPositions
       THEN [row |-> head.row, col |-> head.col]
       ELSE NearestFrom(Tail(queue) \o added, seen \cup Range(fresh),
                        grid, availablePositions, visitedPositions)

\* Faulty variant: the cells the loop has already visited are not excluded.
findNearestEmptyNeighborRevisiting(currentRow, currentCol, grid, availablePositions, visitedPositions) ==
  NearestFrom(<< [row |-> currentRow, col |-> currentCol, distance |-> 0] >>,
              { <<currentRow, currentCol>> },
              grid, availablePositions, {})

findNearestEmptyNeighbor(currentRow, currentCol, grid, availablePositions, visitedPositions) ==
  NearestFrom(<< [row |-> currentRow, col |-> currentCol, distance |-> 0] >>,
              { <<currentRow, currentCol>> },
              grid, availablePositions, visitedPositions)

RECURSIVE FloodFrom(_, _, _, _, _)
\* The while loop of floodFillWithRandomLetters: the set of cells it fills.
FloodFrom(queue, seen, filled, grid, availablePositions) ==
  IF queue = <<>> THEN filled
  ELSE
    LET head == Head(queue)
        fresh == SelectSeq(NeighborSeq(head[1], head[2], NeighborSteps4),
                           LAMBDA p : /\ InGrid(p[1], p[2], grid)
                                      /\ p \notin seen
                                      /\ availablePositions[p[1]][p[2]]
                                      /\ grid[p[1]][p[2]].letter = "")
        fills == /\ InGrid(head[1], head[2], grid)
                 /\ availablePositions[head[1]][head[2]]
                 /\ grid[head[1]][head[2]].letter = ""
    IN FloodFrom(Tail(queue) \o fresh, seen \cup Range(fresh),
                 IF fills THEN filled \cup {head} ELSE filled,
                 grid, availablePositions)

FloodCells(grid, row, col, availablePositions) ==
  FloodFrom(<< <<row, col>> >>, { <<row, col>> }, {}, grid, availablePositions)

\* The grid with only the letter of the cells in DOMAIN letters replaced.
WriteLetters(grid, letters) ==
  [r \in DOMAIN grid |-> [c \in DOMAIN grid[r] |->
     IF <<r, c>> \in DOMAIN letters
     THEN [grid[r][c] EXCEPT !.letter = letters[<<r, c>>]]
     ELSE grid[r][c]]]

\* floodFillWithRandomLetters(grid, row, col, availablePositions) with the
\* random draws given as letters : FloodCells -> letter.
floodFillWithRandomLetters(grid, row, col, availablePositions, letters) ==
  WriteLetters(grid, [p \in FloodCells(grid, row, col, availablePositions) |-> letters[p]])

\* --------------------------------------------------------- the space fill
\* Row-major list of all cells of a grid.
RowMajor(grid) ==
  LET w == GridWidthOf(grid)
  IN [k \in 1..(GridHeightOf(grid) * w) |-> <<(k - 1) \div w, (k - 1) % w>>]

\* Faulty variant: every cell is listed, whatever the mask and its letter.
PositionsToFillEveryCell(grid, availablePositions) == RowMajor(grid)

\* Faulty variant: the test for an empty cell is missing.
PositionsToFillAvailable(grid, availablePositions) ==
  SelectSeq(RowMajor(grid), LAMBDA p : availablePositions[p[1]][p[2]])

\* positionsToFill of fillEmptySpacesWithUpdates.
PositionsToFill(grid, availablePositions) ==
  SelectSeq(RowMajor(grid),
            LAMBDA p : availablePositions[p[1]][p[2]] /\ grid[p[1]][p[2]].letter = "")

\* ------------------------------------------------------------------ state
VARIABLES
  store,  \* the zustand state (WordSearchState); words are ids into heap
  heap,   \* the WordSearchWord objects, shared by the store and the runs
  run     \* per generatePuzzle call: its position and its local variables

vars == <<store, heap, run>>

\* The store's grid: its own value (ref = 0) or the cells of run `ref`.
OwnGrid(g) == [ref |-> 0, val |-> g]

RunGrid(r) == [ref |-> r, val |-> <<>>]

initialState ==
  [charactersPerMm |-> DefaultCharactersPerMm,
   gridWidth |-> 0,
   gridHeight |-> 0,
   words |-> <<>>,
   grid |-> OwnGrid(<<>>),
   availablePositions |-> <<>>,
   isGenerating |-> FALSE,
   error |-> NoError,
   paperWidth |-> DefaultPaperWidth,
   paperHeight |-> DefaultPaperHeight]

\* A generatePuzzle call that has not been made yet.
IdleRun ==
  [pc |-> "idle",
   gridWidth |-> 0, gridHeight |-> 0, words |-> <<>>,
   grid |-> <<>>, availablePositions |-> <<>>, totalAvailableSpaces |-> 0,
   allWords |-> <<>>, visitedPositions |-> {}, smallestWordLength |-> 1,
   currentRow |-> 0, currentCol |-> 0, currentOrientation |-> "horizontal",
   processedWords |-> 0, lengths |-> NoLengths,
   positionsToFill |-> <<>>, filledCount |-> 0,
   \* history of the run, read by the properties only
   ingested |-> <<>>, requests |-> 0,
   lastRequest |-> "none", thrown |-> FALSE, exit |-> "none"]

Init ==
  /\ store = initialState
  /\ heap = <<>>
  /\ run = [r \in Runs |-> IdleRun]

\* Positions of a call at which the event loop may run other handlers.
SuspendedPcs ==
  {"delay800", "image", "delay1000", "supplier", "delay300generated",
   "delay300placed", "delay100", "delay1000final"}

FinishedPcs == {"rejected", "failed", "done"}

Suspended(r) == run[r].pc \in SuspendedPcs

NoCallYet == \A r \in Runs : run[r].pc = "idle"

NoActiveRun == \A r \in Runs : run[r].pc \in FinishedPcs \cup {"idle"}

\* The grid an observer of the store sees.
StoreGrid == IF store.grid.ref = 0 THEN store.grid.val ELSE run[store.grid.ref].grid

\* ------------------------------------------------ Math.floor(x / y)
\* Lengths and densities are written in tenths: x stands for the double
\* nearest to x / 10, as the number literal x / 10 is parsed.
Pow2(e) == IF e > 0 THEN 2 ^ e ELSE 1

\* The binary exponent e of x / 10 (x > 0): 2^e <= x / 10 < 2^(e + 1).
BinaryExponent(x) ==
  CHOOSE e \in -4..20 :
    /\ 10 * Pow2(e) <= x * Pow2(-e)
    /\ x * Pow2(-(e + 1)) < 10 * Pow2(e + 1)

\* The last decimal digit of 2^s, s >= 1.
LastDigitOfPow2(s) == <<6, 2, 4, 8>>[(s % 4) + 1]

\* The rounding of x / 10, whose binary exponent is e, to a 53-bit
\* significand m: 10 * m - x * 2^(52 - e), positive when the double lies
\* above x / 10.
RoundingError(x, e) ==
  IF (x * LastDigitOfPow2(52 - e)) % 10 < 5
  THEN 0 - ((x * LastDigitOfPow2(52 - e)) % 10)
  ELSE 10 - ((x * LastDigitOfPow2(52 - e)) % 10)

\* The exponent of a whole number n >= 1.
IntegerExponent(n) == CHOOSE e \in 0..30 : Pow2(e) <= n /\ n < 2 * Pow2(e)

\* Twice the error of the double quotient of x and y = x / n (x, y > 0, with
\* binary exponents ex and ey) against n, in the unit in which
\* BinadeWidth is the distance from n to the next double above it.
QuotientExcess(x, y, n, ex, ey) ==
  2 * (RoundingError(x, ex) * Pow2(ex) * Pow2(-ey)
       - RoundingError(y, ey) * Pow2(ey) * n * Pow2(-ex))

BinadeWidth(y, ex, ey, en) == y * Pow2(en) * Pow2(-ex) * Pow2(-ey)

\* Round to nearest: 1 when the quotient rounds to a double above n, -1
\* below (the doubles below a power of two lie twice as close), 0 when it
\* rounds to n.
RoundedSide(excess, width, isPowerOfTwo) ==
  IF excess > width THEN 1
  ELSE IF (IF isPowerOfTwo THEN 2 ELSE 1) * (0 - excess) > width THEN -1
  ELSE 0

\* The double x / y compared with the whole number n = x / y.
QuotientRounding(x, y, n) ==
  CHOOSE side \in { RoundedSide(QuotientExcess(x, y, n, ex, ey),
                                BinadeWidth(y, ex, ey, en), n = Pow2(en)) :
                      ex \in {BinaryExponent(x)}, ey \in {BinaryExponent(y)},
                      en \in {IntegerExponent(n)} } : TRUE

\* x / 10 is a double as it stands: a multiple of one half.
IsExact(x) == x % 5 = 0

\* Math.floor(x / y) for a density y > 0.  A quotient that is not a whole
\* number is further from one than a double's precision, and the division of
\* two exact operands rounds a whole quotient to itself; otherwise a whole
\* quotient may come out of the division one double below or above.
FloorOfQuotient(x, y) ==
  IF x % y # 0 \/ x = 0 \/ (IsExact(x) /\ IsExact(y)) THEN x \div y
  ELSE IF x > 0
  THEN (x \div y) - (IF QuotientRounding(x, y, x \div y) = -1 THEN 1 ELSE 0)
  ELSE (x \div y) - (IF QuotientRounding(0 - x, y, (0 - x) \div y) = 1 THEN 1 ELSE 0)

\* ------------------------------------------------------- store operations
setPaperDimensions(width, height) ==
  /\ store' = [store EXCEPT !.paperWidth = width,
                            !.paperHeight = height,
                            !.gridWidth = FloorOfQuotient(width, store.charactersPerMm),
                            !.gridHeight = FloorOfQuotient(height, store.charactersPerMm)]
  /\ UNCHANGED <<heap, run>>

\* The objects setWords creates for the given words.
NewWordObjects(ws) ==
  [k \in 1..Len(ws) |->
     [word |-> ws[k], placed |-> FALSE, startRow |-> 0, startCol |-> 0,
      direction |-> "horizontal"]]

\* setWords(words).  Objects no call refers to any more are dropped from heap.
setWords(ws) ==
  LET base == IF NoCallYet THEN <<>> ELSE heap
  IN /\ heap' = base \o NewWordObjects(ws)
     /\ store' = [store EXCEPT !.words = [k \in 1..Len(ws) |-> Len(base) + k]]
     /\ UNCHANGED run

reset ==
  /\ store' = initialState
  /\ UNCHANGED <<heap, run>>

\* clearError(), lines 245-247.
clearError ==
  /\ store' = [store EXCEPT !.error = NoError]
  /\ UNCHANGED <<heap, run>>

\* --------------------------------------------------------- generatePuzzle
\* The record of a call once nothing refers to its local variables any
\* more: a call that has returned keeps its outcome only.
Returned(me) ==
  IF me.pc \in FinishedPcs THEN [IdleRun EXCEPT !.pc = me.pc] ELSE me

\* Faulty variant: the call is refused only when both dimensions are zero.
DimensionsNotSetBoth(gridWidth, gridHeight) == gridWidth = 0 /\ gridHeight = 0

\* The test of line 147.
DimensionsNotSet(gridWidth, gridHeight) == gridWidth = 0 \/ gridHeight = 0

\* The call up to its first await (lines 140-173).
generatePuzzle(r) ==
  /\ run[r].pc = "idle"
  /\ UNCHANGED heap
  /\ IF DimensionsNotSet(store.gridWidth, store.gridHeight)
     THEN /\ store' = [store EXCEPT !.error = "Grid dimensions not set. Please set paper dimensions first."]
          /\ run' = [run EXCEPT ![r].pc = "rejected"]
     ELSE IF store.gridWidth < 0 \/ store.gridHeight < 0
     THEN \* Array(n) throws a RangeError for a negative n: the catch block
          /\ store' = [store EXCEPT !.error = "Invalid array length",
                                    !.isGenerating = FALSE]
          /\ run' = [run EXCEPT ![r].pc = "failed"]
     ELSE /\ store' = [store EXCEPT
                         !.isGenerating = TRUE,
                         !.error = NoError,
                         !.grid = OwnGrid(EmptyGrid(store.gridHeight, store.gridWidth))]
          /\ run' = [q \in Runs |->
                       IF q = r
                       THEN [IdleRun EXCEPT !.pc = "delay800",
                                            !.gridWidth = store.gridWidth,
                                            !.gridHeight = store.gridHeight,
                                            !.words = store.words]
                       ELSE Returned(run[q])]

\* After the 800 ms delay analyzeThresholdImage starts loading the image.
AfterDelay800(r) ==
  /\ run[r].pc = "delay800"
  /\ run' = [run EXCEPT ![r].pc = "image"]
  /\ UNCHANGED <<store, heap>>

RECURSIVE SubsetsUpTo(_, _)
\* The subsets of S with at most k elements.
SubsetsUpTo(S, k) ==
  IF k = 0 THEN { {} }
  ELSE LET smaller == SubsetsUpTo(S, k - 1)
       IN smaller \cup { T \cup {x} : T \in smaller, x \in S }

\* The light (red >= 128) samples of the images the model draws: at most
\* MaxLightPixels of them, or all of them.
LightPixelSets(h, w) ==
  LET samples == { <<r, c>> : r \in 0..(h - 1), c \in 0..(w - 1) }
  IN SubsetsUpTo(samples, MaxLightPixels) \cup {samples}

\* Faulty variant: the cells of the light samples get no letter.
analyzeThresholdImageBlank(light, noise, gridWidth, gridHeight) ==
  [availablePositions |->
     [y \in 0..(gridHeight - 1) |-> [x \in 0..(gridWidth - 1) |-> <<y, x>> \notin light]],
   grid |-> EmptyGrid(gridHeight, gridWidth)]

\* analyzeThresholdImage's onload: the mask and the pre-filled grid for an
\* image whose light samples are `light`, with the random letters `noise`.
analyzeThresholdImage(light, noise, gridWidth, gridHeight) ==
  [availablePositions |->
     [y \in 0..(gridHeight - 1) |-> [x \in 0..(gridWidth - 1) |-> <<y, x>> \notin light]],
   grid |->
     [y \in 0..(gridHeight - 1) |-> [x \in 0..(gridWidth - 1) |->
        IF <<y, x>> \in light
        THEN [letter |-> noise[<<y, x>>], isWordLetter |-> FALSE, wordIds |-> <<>>]
        ELSE EmptyCell]]]

\* The image loads: lines 177-189.
ImageLoaded(r) ==
  /\ run[r].pc = "image"
  /\ \E light \in LightPixelSets(run[r].gridHeight, run[r].gridWidth) :
       \E noise \in [light -> RandLetters] :
         LET analyzed == analyzeThresholdImage(light, noise, run[r].gridWidth,
                                               run[r].gridHeight)
         IN /\ run' = [run EXCEPT ![r].pc = "delay1000",
                                  ![r].grid = analyzed.grid,
                                  ![r].availablePositions = analyzed.availablePositions,
                                  ![r].ingested = analyzed.grid]
            /\ store' = [store EXCEPT !.grid = RunGrid(r),
                                      !.availablePositions = analyzed.availablePositions]
  /\ UNCHANGED heap

\* The messages of the errors analyzeThresholdImage rejects with: that of
\* img.onerror (line 320), that of a missing canvas context (line 260), and
\* that of an exception of drawImage or getImageData, which the browser
\* words (a canvas tainted by a cross-origin image: a SecurityError).
ImageErrors ==
  { "Failed to load threshold image", "Could not get canvas context", "SecurityError" }

\* analyzeThresholdImage rejects: the catch block stores the error's message.
ImageFailed(r) ==
  /\ run[r].pc = "image"
  /\ run' = [run EXCEPT ![r].pc = "failed"]
  /\ \E message \in ImageErrors :
       store' = [store EXCEPT !.error = message,
                              !.isGenerating = FALSE]
  /\ UNCHANGED heap

\* ---------------------------------------- newPlacementAlgorithmWithUpdates
FloodFillBelow == 3

\* sortedWords[0]?.word.length || 1
SmallestWordLength(ids, objs) ==
  IF ids = <<>> THEN 1
  ELSE LET shortest == CHOOSE n \in { Len(objs[ids[k]].word) : k \in DOMAIN ids } :
                         \A k \in DOMAIN ids : n <= Len(objs[ids[k]].word)
       IN IF shortest = 0 THEN 1 ELSE shortest

\* The first available empty cell in row-major order, (0, 0) when none.
StartPosition(grid, availablePositions) ==
  LET free == PositionsToFill(grid, availablePositions)
  IN IF free = <<>> THEN <<0, 0>> ELSE free[1]

\* Sum of the lengths of the placed words of the list.
PlacedCharacters(ids, objs) ==
  LET F[k \in 0..Len(ids)] ==
        IF k = 0 THEN 0
        ELSE F[k - 1] + (IF objs[ids[k]].placed THEN Len(objs[ids[k]].word) ELSE 0)
  IN F[Len(ids)]

\* Faulty variant: the coverage fraction is left out.
TargetCharactersWhole(totalAvailableSpaces) == totalAvailableSpaces

\* Math.floor(totalAvailableSpaces * 0.4)
TargetCharacters(totalAvailableSpaces) ==
  (totalAvailableSpaces * CoverageTenths) \div 10

TotalAvailable(availablePositions) ==
  Cardinality({ p \in { <<r, c>> : r \in DOMAIN availablePositions,
                                   c \in DOMAIN availablePositions[0] } :
                availablePositions[p[1]][p[2]] })

\* "Move to next position": the nearest empty neighbour becomes the current
\* cell, or the loop is left when there is none.
MoveToNext(me) ==
  LET next == findNearestEmptyNeighbor(me.currentRow, me.currentCol, me.grid,
                                       me.availablePositions, me.visitedPositions)
  IN IF next = NoPosition
     THEN [me EXCEPT !.pc = "fill", !.exit = "noNeighbor"]
     ELSE [me EXCEPT !.pc = "loop", !.currentRow = next.row, !.currentCol = next.col]

\* After the 1000 ms delay: lines 191-199 and the set-up of the placement
\* algorithm, lines 624-650.
StartPlacement(r) ==
  /\ run[r].pc = "delay1000"
  /\ LET me == run[r]
         start == StartPosition(me.grid, me.availablePositions)
     IN run' = [run EXCEPT ![r] =
                  [me EXCEPT !.pc = "loop",
                             !.totalAvailableSpaces = TotalAvailable(me.availablePositions),
                             !.allWords = me.words,
                             !.visitedPositions = {},
                             !.smallestWordLength = SmallestWordLength(me.words, heap),
                             !.currentRow = start[1],
                             !.currentCol = start[2],
                             !.currentOrientation = "horizontal",
                             !.processedWords = 0]]
  /\ UNCHANGED <<store, heap>>

\* Faulty variant: row and column are recorded the wrong way round.
MarkPlacedSwapped(objs, id, row, col, direction) ==
  [objs EXCEPT ![id] = [@ EXCEPT !.placed = TRUE, !.startRow = col,
                                 !.startCol = row, !.direction = direction]]

\* The word entry with its placement recorded.
MarkPlaced(objs, id, row, col, direction) ==
  [objs EXCEPT ![id] = [@ EXCEPT !.placed = TRUE, !.startRow = row,
                                 !.startCol = col, !.direction = direction]]

\* One pass of the while loop (lines 652-825), up to its next await or to
\* the start of the next pass.
LoopStep(r) ==
  /\ run[r].pc = "loop"
  /\ LET me == run[r]
         here == <<me.currentRow, me.currentCol>>
         seen == [me EXCEPT !.visitedPositions = @ \cup {here}]
         lengths == findContiguousLengths(me.currentRow, me.currentCol, me.grid,
                                          me.availablePositions)
         maxLength == MaxLengthOf(lengths)
         remainingWords == SelectSeq(me.allWords, LAMBDA x : ~heap[x].placed)
         suitableWords == findSuitableWords(remainingWords, lengths, heap)
         biggestWord == suitableWords[1]
         direction == getBestDirectionForWord(Len(heap[biggestWord].word), lengths,
                                              me.currentOrientation)
     IN IF me.processedWords >= Len(me.allWords)
        THEN /\ run' = [run EXCEPT ![r] = [me EXCEPT !.pc = "fill", !.exit = "processed"]]
             /\ UNCHANGED <<store, heap>>
        ELSE IF here \in me.visitedPositions
        THEN /\ run' = [run EXCEPT ![r] = MoveToNext(me)]
             /\ UNCHANGED <<store, heap>>
        ELSE IF maxLength < me.smallestWordLength
        THEN /\ \E letters \in
                   [IF maxLength < FloodFillBelow
                    THEN FloodCells(me.grid, me.currentRow, me.currentCol,
                                    me.availablePositions)
                    ELSE {} -> RandLetters] :
                  run' = [run EXCEPT ![r] =
                    [seen EXCEPT !.pc = "fill", !.exit = "tooShort",
                                 !.grid = IF maxLength < FloodFillBelow
                                          THEN floodFillWithRandomLetters(
                                                 me.grid, me.currentRow, me.currentCol,
                                                 me.availablePositions, letters)
                                          ELSE me.grid]]
             /\ UNCHANGED <<store, heap>>
        ELSE IF suitableWords = <<>>
        THEN /\ IF /\ PlacedCharacters(me.allWords, heap)
                        < TargetCharacters(me.totalAvailableSpaces)
                   /\ maxLength >= MinGeneratedLength
                THEN run' = [run EXCEPT ![r] =
                       [seen EXCEPT !.pc = "supplier", !.lengths = lengths,
                                    !.requests = @ + 1, !.lastRequest = "pending"]]
                ELSE run' = [run EXCEPT ![r] = MoveToNext(seen)]
             /\ UNCHANGED <<store, heap>>
        ELSE IF canPlaceWord(heap[biggestWord].word, me.currentRow, me.currentCol,
                             direction, me.grid, me.availablePositions)
        THEN /\ heap' = MarkPlaced(heap, biggestWord, me.currentRow, me.currentCol,
                                   direction)
             /\ run' = [run EXCEPT ![r] =
                  [seen EXCEPT !.pc = "delay300placed",
                               !.grid = placeWordInGrid(heap[biggestWord].word,
                                          me.currentRow, me.currentCol, direction,
                                          me.grid)]]
             /\ store' = [store EXCEPT !.grid = RunGrid(r), !.words = me.allWords]
        ELSE /\ run' = [run EXCEPT ![r] =
                  MoveToNext([seen EXCEPT !.processedWords = @ + 1])]
             /\ UNCHANGED <<store, heap>>

\* After the 300 ms delay that follows the placement of a listed word
\* (lines 812-824).
AfterDelay300Placed(r) ==
  /\ run[r].pc = "delay300placed"
  /\ run' = [run EXCEPT ![r] =
       MoveToNext([run[r] EXCEPT
                     !.currentOrientation = getNextOrientation(@),
                     !.processedWords = @ + 1])]
  /\ UNCHANGED <<store, heap>>

\* What a supplier call may come back with: an exception, no word, one word.
SupplierResponses ==
  { [kind |-> "throw", words |-> <<>>], [kind |-> "words", words |-> <<>>] }
    \cup { [kind |-> "words", words |-> <<w>>] : w \in SupplierWords }

\* Faulty variant: the word is taken as the supplier gave it.
SelectedWordWhole(newWords, idealLength) == newWords[1]

\* The word taken from the response: newWords[0], cut to idealLength.
SelectedWord(newWords, idealLength) ==
  IF Len(newWords[1]) > idealLength
  THEN SubSeq(newWords[1], 1, idealLength)
  ELSE newWords[1]

\* Faulty variant: an exception of the supplier ends the call.
AfterFailedRequestFatal(me, threw) ==
  IF threw
  THEN [me EXCEPT !.pc = "failed", !.lastRequest = "nothing", !.thrown = TRUE]
  ELSE MoveToNext([me EXCEPT !.lastRequest = "nothing"])

\* The supplier threw (the catch block of lines 767-769) or returned no
\* word: the loop moves on to the next position (lines 773-777).
AfterFailedRequest(me, threw) ==
  MoveToNext([me EXCEPT !.lastRequest = "nothing", !.thrown = @ \/ threw])

\* The supplier call of line 704 settles: lines 706-777.
SupplierReturns(r) ==
  /\ run[r].pc = "supplier"
  /\ \E response \in SupplierResponses :
       LET me == run[r]
           idealLength == Min(MaxLengthOf(me.lengths), MaxGeneratedLength)
           word == SelectedWord(response.words, idealLength)
           id == Len(heap) + 1
           added == Append(heap, NewWordObjects(<<word>>)[1])
           allWords == Append(me.allWords, id)
           direction == getBestDirectionForWord(Len(word), me.lengths,
                                                me.currentOrientation)
       IN IF response.kind = "throw" \/ response.words = <<>>
          THEN /\ run' = [run EXCEPT ![r] =
                    AfterFailedRequest(me, response.kind = "throw")]
               /\ UNCHANGED <<store, heap>>
          ELSE IF canPlaceWord(word, me.currentRow, me.currentCol, direction,
                               me.grid, me.availablePositions)
          THEN /\ heap' = MarkPlaced(added, id, me.currentRow, me.currentCol, direction)
               /\ run' = [run EXCEPT ![r] =
                    [me EXCEPT !.pc = "delay300generated",
                               !.allWords = allWords,
                               !.lastRequest = "placed",
                               !.grid = placeWordInGrid(word, me.currentRow,
                                          me.currentCol, direction, me.grid)]]
               /\ store' = [store EXCEPT !.grid = RunGrid(r), !.words = allWords]
          ELSE /\ heap' = added
               /\ run' = [run EXCEPT ![r] =
                    MoveToNext([me EXCEPT !.allWords = allWords,
                                          !.lastRequest = "nothing"])]
               /\ UNCHANGED store

\* After the 300 ms delay that follows the placement of a generated word
\* (lines 761-777).
AfterDelay300Generated(r) ==
  /\ run[r].pc = "delay300generated"
  /\ run' = [run EXCEPT ![r] =
       MoveToNext([run[r] EXCEPT !.currentOrientation = getNextOrientation(@)])]
  /\ UNCHANGED <<store, heap>>

\* ----------------------------------------------- fillEmptySpacesWithUpdates
\* Faulty variant: the last position of the batch is left out.
FillBatchShort(positions, filledCount) ==
  { positions[k] : k \in (filledCount + 1)..(Min(filledCount + FillUpdateEvery,
                                                  Len(positions)) - 1) }

\* The positions written between two awaits: from filledCount + 1 up to the
\* next multiple of FillUpdateEvery or the end of the list.
FillBatch(positions, filledCount) ==
  { positions[k] : k \in (filledCount + 1)..Min(filledCount + FillUpdateEvery,
                                                 Len(positions)) }

\* Lines 213-218: the result is published and the call awaits its last delay.
Complete(r, me) ==
  /\ run' = [run EXCEPT ![r] = [me EXCEPT !.pc = "delay1000final"]]
  /\ store' = [store EXCEPT !.words = me.allWords,
                            !.grid = RunGrid(r),
                            !.isGenerating = FALSE]

\* The for loop of lines 429-443 up to its await, with the draws `letters`.
FillNext(r, me, positions, letters) ==
  /\ run' = [run EXCEPT ![r] =
       [me EXCEPT !.pc = "delay100",
                  !.positionsToFill = positions,
                  !.filledCount = Min(me.filledCount + FillUpdateEvery, Len(positions)),
                  !.grid = WriteLetters(me.grid, letters)]]
  /\ store' = [store EXCEPT !.grid = RunGrid(r)]

\* The placement is over: fillEmptySpacesWithUpdates starts (lines 410-443),
\* and with nothing to fill the call goes straight on to line 213.
FillStart(r) ==
  /\ run[r].pc = "fill"
  /\ LET me == [run[r] EXCEPT !.filledCount = 0]
         positions == PositionsToFill(me.grid, me.availablePositions)
     IN IF positions = <<>>
        THEN Complete(r, me)
        ELSE \E letters \in [FillBatch(positions, 0) -> RandLetters] :
               FillNext(r, me, positions, letters)
  /\ UNCHANGED heap

\* After a 100 ms delay of the fill: the next batch, or the end of the call.
AfterDelay100(r) ==
  /\ run[r].pc = "delay100"
  /\ LET me == run[r]
     IN IF me.filledCount >= Len(me.positionsToFill)
        THEN Complete(r, me)
        ELSE \E letters \in [FillBatch(me.positionsToFill, me.filledCount)
                               -> RandLetters] :
               FillNext(r, me, me.positionsToFill, letters)
  /\ UNCHANGED heap

\* After the last delay (line 222) the call has returned.
AfterDelay1000Final(r) ==
  /\ run[r].pc = "delay1000final"
  /\ run' = [run EXCEPT ![r].pc = "done"]
  /\ UNCHANGED <<store, heap>>

\* ---------------------------------------------------------- specifications
WordLists == DistinctSeqs(UserWords, MaxWords)

ChoosePaper ==
  /\ NoCallYet
  /\ \E paper \in PaperFormats : setPaperDimensions(paper[1], paper[2])

ChooseWords ==
  /\ NoCallYet
  /\ \E ws \in WordLists : setWords(ws)

FirstCall == generatePuzzle(1)

\* The steps a started call takes.
Step(r) ==
  \/ AfterDelay800(r)
  \/ ImageLoaded(r)
  \/ ImageFailed(r)
  \/ StartPlacement(r)
  \/ LoopStep(r)
  \/ AfterDelay300Placed(r)
  \/ SupplierReturns(r)
  \/ AfterDelay300Generated(r)
  \/ FillStart(r)
  \/ AfterDelay100(r)
  \/ AfterDelay1000Final(r)

\* One generatePuzzle call on a configured store, nothing else interfering.
Next ==
  \/ ChoosePaper
  \/ ChooseWords
  \/ FirstCall
  \/ Step(1)

Spec == Init /\ [][Next]_vars

\* reset() is called while the call is suspended at a delay, at the image
\* load or at the supplier call.
ResetDuringRun == Suspended(1) /\ reset

NextReset ==
  \/ Next
  \/ ResetDuringRun

\* One generatePuzzle call that reset() may interrupt.
SpecReset == Init /\ [][NextReset]_vars

\* generatePuzzle is called again after the first call has returned, with
\* the store as the first call left it.
SecondCall == run[1].pc \in FinishedPcs /\ generatePuzzle(2)

\* The paper of the two-call scenario: a 4 x 2 grid.
RegenFormats == { <<100, 50>> }

ChoosePaperRegen ==
  /\ NoCallYet
  /\ \E paper \in RegenFormats : setPaperDimensions(paper[1], paper[2])

NextRegen ==
  \/ ChoosePaperRegen
  \/ ChooseWords
  \/ FirstCall
  \/ Step(1)
  \/ SecondCall
  \/ Step(2)

\* Two generatePuzzle calls, one after the other.
SpecRegen == Init /\ [][NextRegen]_vars

\* The paper of the overlapping-calls scenario: a strip of 2 x 1 cells, too
\* short for a supplier request to be due.
OverlapFormats == { <<50, 25>> }

ChoosePaperOverlap ==
  /\ NoCallYet
  /\ \E paper \in OverlapFormats : setPaperDimensions(paper[1], paper[2])

\* generatePuzzle is called again while the first call is suspended and the
\* store says isGenerating.
OverlappingCall == Suspended(1) /\ store.isGenerating /\ generatePuzzle(2)

\* The steps of a call that asks no supplier.
StepUnsupplied(r) ==
  \/ AfterDelay800(r)
  \/ ImageLoaded(r)
  \/ ImageFailed(r)
  \/ StartPlacement(r)
  \/ LoopStep(r)
  \/ AfterDelay300Placed(r)
  \/ FillStart(r)
  \/ AfterDelay100(r)
  \/ AfterDelay1000Final(r)

NextOverlap ==
  \/ ChoosePaperOverlap
  \/ ChooseWords
  \/ FirstCall
  \/ StepUnsupplied(1)
  \/ OverlappingCall
  \/ StepUnsupplied(2)

\* Two generatePuzzle calls whose executions interleave at their awaits.
SpecOverlap == Init /\ [][NextOverlap]_vars

\* ------------------------------------------- placeWordsInGridWithUpdates
\* The entries of s in the order of a stable sort by overlap, capped at cap,
\* highest first.
SortByOverlapDesc(s, cap) ==
  LET G[v \in -1..Max(cap, 0)] ==
        IF v = -1 THEN <<>>
        ELSE SelectSeq(s, LAMBDA e : Min(e.overlap, Max(cap, 0)) = v) \o G[v - 1]
  IN G[Max(cap, 0)]

\* The entries pushed for the start cells `starts`: row, col and overlap.
WithOverlap(starts, word, direction, grid) ==
  [k \in DOMAIN starts |->
     [row |-> starts[k][1], col |-> starts[k][2],
      overlap |-> calculateOverlap(word, starts[k][1], starts[k][2], direction, grid)]]

\* The legal start cells of a direction in row-major order, with overlap.
PositionsRowMajor(word, direction, grid, availablePositions) ==
  WithOverlap(SelectSeq(RowMajor(grid), LAMBDA p :
                canPlaceWord(word, p[1], p[2], direction, grid, availablePositions)),
              word, direction, grid)

\* Faulty variant: the list is returned in scan order, unsorted.
findAllValidPositionsUnsorted(word, direction, grid, availablePositions) ==
  PositionsRowMajor(word, direction, grid, availablePositions)

\* findAllValidPositions: the legal start cells sorted by overlap, descending.
findAllValidPositions(word, direction, grid, availablePositions) ==
  SortByOverlapDesc(PositionsRowMajor(word, direction, grid, availablePositions), Len(word))

\* positions.forEach(pos => allValidPositions.push({ ...pos, direction }))
WithDirection(positions, direction) ==
  [k \in DOMAIN positions |->
     [row |-> positions[k].row, col |-> positions[k].col,
      overlap |-> positions[k].overlap, direction |-> direction]]

\* The positions of one direction of the batch placer's scan.
DirectedPositions(word, direction, grid, availablePositions) ==
  WithDirection(findAllValidPositions(word, direction, grid, availablePositions), direction)

\* allValidPositions of the batch placer: the positions of the four
\* directions, one direction after the other, each with its direction.
AllValidPositions(word, grid, availablePositions) ==
  DirectedPositions(word, Directions[1], grid, availablePositions)
    \o DirectedPositions(word, Directions[2], grid, availablePositions)
    \o DirectedPositions(word, Directions[3], grid, availablePositions)
    \o DirectedPositions(word, Directions[4], grid, availablePositions)

\* Faulty variant: positions of complete overlap are kept.
ValidPositionsUnfiltered(word, grid, availablePositions) ==
  SortByOverlapDesc(AllValidPositions(word, grid, availablePositions), Len(word) - 1)

\* validPositions: sorted by the capped overlap, complete overlaps removed.
ValidPositions(word, grid, availablePositions) ==
  SelectSeq(SortByOverlapDesc(AllValidPositions(word, grid, availablePositions),
                              Len(word) - 1),
            LAMBDA e : e.overlap < Len(word))

\* Faulty variant: every remaining position counts as a best position.
BestPositionsAny(validPositions) == validPositions

\* bestPositions: the positions whose overlap is that of the first one.
BestPositions(validPositions) ==
  SelectSeq(validPositions, LAMBDA e : e.overlap = validPositions[1].overlap)

\* The record of a call of placeWordsInGridWithUpdates before its first step.
BatchRun(words, grid, availablePositions) ==
  [pc |-> "batch", words |-> words, grid |-> grid,
   availablePositions |-> availablePositions,
   placedWords |-> <<>>, sortedWords |-> <<>>, next |-> 1,
   placedCount |-> 0, newlyPlacedCount |-> 0,
   \* history of the call, read by the properties only
   ingested |-> grid, committed |-> <<>>]

\* The for loop of lines 346-403 from sortedWords[from] on, up to the await
\* that follows a placement or to the return.
BatchLoop(r, me, from) ==
  LET placeable == { k \in from..Len(me.sortedWords) :
                       ValidPositions(heap[me.sortedWords[k]].word, me.grid,
                                      me.availablePositions) # <<>> }
  IN IF placeable = {}
     THEN /\ run' = [run EXCEPT ![r] = [me EXCEPT !.pc = "returned",
                                                  !.next = Len(me.sortedWords) + 1]]
          /\ UNCHANGED <<store, heap>>
     ELSE \E k \in placeable :
            /\ \A y \in placeable : k <= y
            /\ \E id \in {me.sortedWords[k]} :
                 \E selectedPosition \in Range(BestPositions(ValidPositions(
                       heap[id].word, me.grid, me.availablePositions))) :
                   /\ heap' = MarkPlaced(heap, id, selectedPosition.row,
                                         selectedPosition.col, selectedPosition.direction)
                   /\ run' = [run EXCEPT ![r] =
                        [me EXCEPT !.pc = "delay300batch",
                                   !.grid = placeWordInGrid(heap[id].word,
                                              selectedPosition.row, selectedPosition.col,
                                              selectedPosition.direction, me.grid),
                                   !.next = k + 1,
                                   !.placedCount = @ + 1,
                                   !.newlyPlacedCount = @ + 1,
                                   !.committed = selectedPosition]]
                   /\ store' = [store EXCEPT !.grid = RunGrid(r),
                                             !.words = me.placedWords]

\* placeWordsInGridWithUpdates(grid, words, availablePositions, set) up to
\* its first await (lines 326-400).
placeWordsInGridWithUpdates(r) ==
  /\ run[r].pc = "batch"
  /\ LET placedWords == run[r].words
         unplacedWords == SelectSeq(placedWords, LAMBDA x : ~heap[x].placed)
         me == [run[r] EXCEPT
                  !.placedWords = placedWords,
                  !.placedCount = Len(SelectSeq(placedWords, LAMBDA x : heap[x].placed)),
                  !.sortedWords = SortByLengthDesc(unplacedWords, heap)]
     IN BatchLoop(r, me, 1)

\* After the 300 ms delay that follows a placement of the batch placer.
AfterDelay300Batch(r) ==
  /\ run[r].pc = "delay300batch"
  /\ BatchLoop(r, run[r], run[r].next)

\* The words and papers the batch placer is applied to.
BatchWords == UserWords \cup { <<"T", "A", "B">> }

\* The lists given to the batch placer: no word, one word, or two words,
\* which may be the same word twice.
BatchLists ==
  { <<>> } \cup { <<a>> : a \in BatchWords } \cup { <<a, b>> : a, b \in BatchWords }

BatchFormats == { <<75, 75>>, <<100, 25>>, <<100, 50>> }

\* The masks given to the batch placer: those of images with at most
\* MaxBatchLightPixels light samples.
BatchLightPixelSets(h, w) ==
  SubsetsUpTo({ <<y, x>> : y \in 0..(h - 1), x \in 0..(w - 1) }, MaxBatchLightPixels)

\* A call placeWordsInGridWithUpdates(grid, words, availablePositions, set)
\* (lines 326-331).  No code of the repository makes this call; the
\* arguments are drawn here: the words of a store after setPaperDimensions
\* and setWords, all unplaced, and a grid and a mask as
\* analyzeThresholdImage returns them for the store's grid size.
InitBatch ==
  \E paper \in BatchFormats : \E ws \in BatchLists :
    \E gridWidth \in {FloorOfQuotient(paper[1], DefaultCharactersPerMm)} :
      \E gridHeight \in {FloorOfQuotient(paper[2], DefaultCharactersPerMm)} :
        \E light \in BatchLightPixelSets(gridHeight, gridWidth) :
          \E noise \in [light -> RandLetters] :
            \E analyzed \in {analyzeThresholdImage(light, noise, gridWidth, gridHeight)} :
              /\ heap = NewWordObjects(ws)
              /\ run = [r \in Runs |->
                          IF r = 1
                          THEN BatchRun([k \in 1..Len(ws) |-> k], analyzed.grid,
                                        analyzed.availablePositions)
                          ELSE IdleRun]
              /\ store = [initialState EXCEPT
                            !.paperWidth = paper[1], !.paperHeight = paper[2],
                            !.gridWidth = gridWidth,
                            !.gridHeight = gridHeight,
                            !.words = [k \in 1..Len(ws) |-> k]]

NextBatch ==
  \/ placeWordsInGridWithUpdates(1)
  \/ AfterDelay300Batch(1)

\* The batch placer applied to an ingested grid and a list of unplaced words.
SpecBatch == InitBatch /\ [][NextBatch]_vars

\* ------------------------------------------- the store between two calls
\* setCharactersPerMm(value), lines 72-91.
setCharactersPerMm(value) ==
  /\ IF store.paperWidth > 0 /\ store.paperHeight > 0
     THEN store' = [store EXCEPT !.charactersPerMm = value,
                                 !.gridWidth = FloorOfQuotient(store.paperWidth, value),
                                 !.gridHeight = FloorOfQuotient(store.paperHeight, value)]
     ELSE store' = [store EXCEPT !.charactersPerMm = value]
  /\ UNCHANGED <<heap, run>>

\* addWord(word), lines 121-131.
addWord(word) ==
  /\ heap' = Append(heap, NewWordObjects(<<word>>)[1])
  /\ store' = [store EXCEPT !.words = Append(@, Len(heap) + 1)]
  /\ UNCHANGED run

\* words.filter((_, i) => i !== index): the entries at the other 0-based
\* positions, in order.
WithoutIndex(words, index) ==
  LET kept == SelectSeq([k \in DOMAIN words |-> k], LAMBDA k : k - 1 # index)
  IN [j \in DOMAIN kept |-> words[kept[j]]]

\* removeWord(index), lines 133-138: an index outside the list (negative, or
\* at or past its length) leaves it as it is.
removeWord(index) ==
  /\ store' = [store EXCEPT !.words = WithoutIndex(@, index)]
  /\ UNCHANGED <<heap, run>>

\* shuffleWords(), lines 234-238: a sort with a random comparator leaves the
\* words in some order.
shuffleWords ==
  /\ \E p \in Permutations(DOMAIN store.words) :
       store' = [store EXCEPT !.words = [k \in DOMAIN @ |-> @[p[k]]]]
  /\ UNCHANGED <<heap, run>>

\* The papers and the densities (tenths of a character per mm) of the
\* scenario: a strip of 2 x 1 cells at the default density, no paper, and a
\* paper of 3.3 x 1.1 mm, whose width divided by the density 1.1 comes out
\* as the double 2.9999999999999996.
StoreFormats == { <<50, 25>>, <<0, 0>>, <<33, 11>> }

Densities == { 25, 11 }

ConfigurePaper ==
  /\ NoActiveRun
  /\ \E paper \in StoreFormats : setPaperDimensions(paper[1], paper[2])

ConfigureDensity ==
  /\ NoActiveRun
  /\ \E value \in Densities : setCharactersPerMm(value)

EditSetWords ==
  /\ NoActiveRun
  /\ \E ws \in WordLists :
       /\ NoCallYet \/ Len(heap) + Len(ws) <= MaxObjects
       /\ setWords(ws)

EditAddWord ==
  /\ NoActiveRun
  /\ Len(heap) < MaxObjects
  /\ \E word \in UserWords : addWord(word)

EditRemoveWord ==
  /\ NoActiveRun
  /\ \E index \in 0..MaxWords : removeWord(index)

EditShuffle == NoActiveRun /\ shuffleWords

ResetIdle == NoActiveRun /\ reset

\* generatePuzzle on a grid of at most MaxCells cells.
CallSmall ==
  /\ store.gridWidth * store.gridHeight <= MaxCells
  /\ generatePuzzle(1)

NextStore ==
  \/ ConfigurePaper
  \/ ConfigureDensity
  \/ EditSetWords
  \/ EditAddWord
  \/ EditRemoveWord
  \/ EditShuffle
  \/ ResetIdle
  \/ clearError
  \/ CallSmall
  \/ StepUnsupplied(1)

\* The operations of the store around one generatePuzzle call.
SpecStore == Init /\ [][NextStore]_vars

\* ------------------------------------------------------------- properties
\* Runs whose mask ingestion has happened.
Ingested(r) == run[r].ingested # <<>>

\* Some cell of the run's grid is outside the mask.
HasLightCell(r) ==
  \E p \in Cells(run[r].grid) : ~run[r].availablePositions[p[1]][p[2]]

\* Some word of the run's list is placed.
HasPlacedWord(r) == \E k \in DOMAIN run[r].allWords : heap[run[r].allWords[k]].placed

\* The deltas as the specification states them: horizontal (0,+1),
\* vertical (+1,0), diagonal-down (+1,+1), diagonal-up (-1,+1).
StatedDelta(direction) ==
  CASE direction = "horizontal" -> <<0, 1>>
    [] direction = "vertical" -> <<1, 0>>
    [] direction = "diagonal-down" -> <<1, 1>>
    [] direction = "diagonal-up" -> <<-1, 1>>

\* The i-th cell (0-based) of the footprint of a word entry.
FootprintCell(w, i) ==
  <<w.startRow + i * StatedDelta(w.direction)[1],
    w.startCol + i * StatedDelta(w.direction)[2]>>

\* The word entry w is spelled in grid g, inside the mask, where it says it is.
SpelledIn(w, g, availablePositions) ==
  \A i \in 0..(Len(w.word) - 1) :
    LET p == FootprintCell(w, i)
    IN /\ InGrid(p[1], p[2], g)
       /\ availablePositions[p[1]][p[2]]
       /\ g[p[1]][p[2]].letter = w.word[i + 1]

\* C1 (mask containment): at every point of a run after mask ingestion,
\* every cell outside the mask is exactly as ingestion left it: the same
\* letter, not a word letter, no word ids.
C1_MaskContainment ==
  \A r \in Runs : Ingested(r) =>
    \A p \in Cells(run[r].grid) :
      ~run[r].availablePositions[p[1]][p[2]] =>
        /\ run[r].grid[p[1]][p[2]] = run[r].ingested[p[1]][p[2]]
        /\ run[r].grid[p[1]][p[2]].isWordLetter = FALSE
        /\ run[r].grid[p[1]][p[2]].wordIds = <<>>

\* A finished run with a cell outside the mask, a placed word and a space fill.
C1_Witness ==
  \E r \in Runs : /\ run[r].pc = "done"
                  /\ HasLightCell(r)
                  /\ HasPlacedWord(r)
                  /\ run[r].filledCount > 0

\* C2 (placement consistency): at every point, every word entry with
\* placed = true is spelled in the store's grid along the stated delta of
\* its direction, on cells that are in bounds and inside the mask.
C2_PlacementConsistency ==
  \A id \in DOMAIN heap :
    heap[id].placed => SpelledIn(heap[id], StoreGrid, store.availablePositions)

\* A finished run that placed a word away from the diagonal of the grid.
C2_Witness ==
  \E r \in Runs : /\ run[r].pc = "done"
                  /\ \E id \in DOMAIN heap : /\ heap[id].placed
                                             /\ heap[id].startRow # heap[id].startCol

\* C3 (full coverage): when a run has completed without error, every cell
\* inside the mask, and so every cell of the grid, holds a letter.
C3_FullCoverage ==
  \A r \in Runs : run[r].pc \in {"delay1000final", "done"} =>
    /\ GridHeightOf(StoreGrid) = run[r].gridHeight
    /\ GridWidthOf(StoreGrid) = run[r].gridWidth
    /\ \A p \in Cells(StoreGrid) : StoreGrid[p[1]][p[2]].letter # ""

\* A completed run whose space fill wrote cells and whose mask has a hole.
C3_Witness ==
  \E r \in Runs : /\ run[r].pc = "delay1000final"
                  /\ run[r].filledCount > 1
                  /\ HasLightCell(r)

\* C4 (no silent overwrite): within a run, a step never changes the letter
\* of a cell that already holds one.
C4_NoSilentOverwrite ==
  [][\A r \in Runs :
       (Ingested(r) /\ run'[r].ingested = run[r].ingested) =>
         \A p \in Cells(run[r].grid) :
           run[r].grid[p[1]][p[2]].letter # "" =>
             run'[r].grid[p[1]][p[2]].letter = run[r].grid[p[1]][p[2]].letter]_vars

\* A run in which a word was placed and the space fill then wrote the rest.
C4_Witness ==
  \E r \in Runs : /\ run[r].pc = "delay100"
                  /\ HasPlacedWord(r)
                  /\ run[r].filledCount > 0

\* The number of steps a call at this position can still take, at most:
\* what is left of the space fill, three steps for every cell the placement
\* loop has not visited yet, and the steps before the loop.
StepsLeft(me) ==
  LET cells == me.gridHeight * me.gridWidth
      unvisited == cells - Cardinality(me.visitedPositions)
      revisit == IF <<me.currentRow, me.currentCol>> \in me.visitedPositions
                 THEN 1 ELSE 0
  IN CASE me.pc \in FinishedPcs -> 0
       [] me.pc = "delay1000final" -> 1
       [] me.pc = "delay100" -> 2 + Len(me.positionsToFill) - me.filledCount
       [] me.pc = "fill" -> cells + 3
       [] me.pc = "loop" -> cells + 4 + 3 * unvisited + revisit
       [] me.pc \in {"delay300placed", "delay300generated"} ->
            cells + 4 + 3 * unvisited + 1
       [] me.pc = "supplier" -> cells + 4 + 3 * unvisited + 2
       [] me.pc = "delay1000" -> 4 * cells + 5
       [] me.pc = "image" -> 4 * cells + 6
       [] me.pc = "delay800" -> 4 * cells + 7
       [] me.pc = "idle" -> 4 * cells + 8

\* C5 (termination): every step of a generatePuzzle call, whatever the grid,
\* the mask, the words and the supplier's response, strictly lowers a
\* natural number bounded by the size of the grid, so the placement loop
\* halts after finitely many passes and the call ends completed or in error.
C5_Termination ==
  [][\A r \in Runs :
       (run[r].pc # "idle" /\ run'[r] # run[r]) =>
         /\ StepsLeft(run'[r]) >= 0
         /\ StepsLeft(run'[r]) < StepsLeft(run[r])]_vars

\* A completed call whose loop asked the supplier at least twice and ended
\* because no unvisited empty cell was left.
C5_Witness ==
  /\ run[1].pc = "done"
  /\ run[1].requests >= 2
  /\ run[1].exit = "noNeighbor"

\* A call that the store no longer belongs to: it started on a configured
\* grid and the store is back at its initial configuration.
ResetSince(r) == run[r].gridWidth > 0 /\ store.gridWidth = 0

\* C6 (cancellation by reset): after reset() during a suspended call, no
\* later step of the call writes to the store: grid and words stay empty
\* and isGenerating stays false.
C6_CancellationByReset ==
  \A r \in Runs : ResetSince(r) =>
    /\ StoreGrid = <<>>
    /\ store.words = <<>>
    /\ store.isGenerating = FALSE

\* Every word entry of the store that says placed is spelled in its grid.
StoreWordsSpelled ==
  \A k \in DOMAIN store.words :
    heap[store.words[k]].placed =>
      SpelledIn(heap[store.words[k]], StoreGrid, store.availablePositions)

\* C7 (a new session discards earlier placements): when a second call on
\* the words an earlier call has placed completes, every word with
\* placed = true is spelled in the new grid where its entry says.
C7_NewSessionDiscardsPlacements ==
  run[2].pc \in {"delay1000final", "done"} => StoreWordsSpelled

\* A legal position as the claim defines it: the footprint along the stated
\* delta is in bounds, inside the mask and, cell by cell, empty or already
\* holding the letter of the word.
LegalPosition(word, row, col, direction, g, availablePositions) ==
  \A i \in 0..(Len(word) - 1) :
    LET p == <<row + i * StatedDelta(direction)[1],
               col + i * StatedDelta(direction)[2]>>
    IN /\ InGrid(p[1], p[2], g)
       /\ availablePositions[p[1]][p[2]]
       /\ g[p[1]][p[2]].letter \in {"", word[i + 1]}

HasLegalPosition(word, g, availablePositions) ==
  \E p \in Cells(g) : \E direction \in Range(Directions) :
    LegalPosition(word, p[1], p[2], direction, g, availablePositions)

\* C8 (unplaced only when unplaceable): at the end of the placement phase,
\* before the space fill, no pre-supplied word with placed = false has a
\* legal position in the grid.
C8_UnplacedOnlyWhenUnplaceable ==
  \A r \in Runs : run[r].pc = "fill" =>
    \A k \in DOMAIN run[r].words :
      ~heap[run[r].words[k]].placed =>
        ~HasLegalPosition(heap[run[r].words[k]].word, run[r].grid,
                          run[r].availablePositions)

\* Some empty cell inside the mask starts a run of cells long enough for a
\* generated word.
CanHoldWord(g, availablePositions) ==
  \E p \in Cells(g) :
    /\ availablePositions[p[1]][p[2]]
    /\ g[p[1]][p[2]].letter = ""
    /\ MaxLengthOf(findContiguousLengths(p[1], p[2], g, availablePositions))
         >= MinGeneratedLength

\* C9 (stops only for a stated reason): when the loop is left, the placed
\* characters have reached the target, or the last supplier request placed
\* nothing, or the bound of the loop (processedWords against the number of
\* words) was reached; and it is never left below the target with the
\* supplier not asked yet and room for a word remaining.  Stated for the
\* calls made with at least one word.
C9_StopsForStatedReason ==
  \A r \in Runs : (run[r].pc = "fill" /\ run[r].words # <<>>) =>
    LET reached == PlacedCharacters(run[r].allWords, heap)
                     >= TargetCharacters(run[r].totalAvailableSpaces)
    IN /\ \/ reached
          \/ run[r].lastRequest = "nothing"
          \/ run[r].exit = "processed"
       /\ ~(/\ ~reached
             /\ run[r].requests = 0
             /\ CanHoldWord(run[r].grid, run[r].availablePositions))

\* C10 (stall exit): after a supplier request that led to no placement, no
\* further supplier request is issued in the call.
C10_StallExit ==
  [][\A r \in Runs :
       run[r].lastRequest = "nothing" => run'[r].requests = run[r].requests]_vars

\* The positions of a call inside the placement loop.
LoopPcs == {"loop", "supplier", "delay300placed", "delay300generated"}

\* The placed characters of the call have reached the coverage target: the
\* coverage fraction times the number of cells inside the mask, rounded down.
TargetReached(me, objs) ==
  PlacedCharacters(me.allWords, objs)
    >= (TotalAvailable(me.availablePositions) * CoverageTenths) \div 10

\* C11 (the coverage target bounds generation): a supplier request is
\* issued only when the placed characters are strictly below the target,
\* and once they are at or above it no supplier request is issued and no
\* word is appended to the word list.
C11_TargetBoundsGeneration ==
  [][\A r \in Runs :
       /\ run'[r].requests # run[r].requests => ~TargetReached(run[r], heap)
       /\ (run[r].pc \in LoopPcs /\ TargetReached(run[r], heap)) =>
            /\ run'[r].requests = run[r].requests
            /\ run'[r].allWords = run[r].allWords]_vars

\* The loop goes on after a generated word has lifted the placed characters
\* to the target.
C11_Witness ==
  \E r \in Runs : /\ run[r].pc = "loop"
                  /\ run[r].lastRequest = "placed"
                  /\ TargetReached(run[r], heap)
                  /\ run[r].processedWords < Len(run[r].allWords)

\* Every cell of the store's grid inside the mask holds a letter.
MaskFilled ==
  \A p \in Cells(StoreGrid) :
    store.availablePositions[p[1]][p[2]] => StoreGrid[p[1]][p[2]].letter # ""

\* C12 (supplier failure is not fatal): the step in which a supplier call
\* throws appends no word, writes no cell and leaves the store as it is,
\* the loop going on from there; and a call in which the supplier has
\* thrown keeps the store's error null, never ends in error, and completes
\* with every cell inside the mask filled.
C12_SupplierFailureNotFatal ==
  [][\A r \in Runs :
       /\ (run[r].pc = "supplier" /\ run'[r].thrown
              /\ run'[r].lastRequest = "nothing") =>
            /\ store' = store
            /\ heap' = heap
            /\ run'[r].allWords = run[r].allWords
            /\ run'[r].grid = run[r].grid
            /\ run'[r].pc \in {"loop", "fill"}
       /\ run'[r].thrown =>
            /\ run'[r].words # <<>>
            /\ store'.error = NoError
            /\ run'[r].pc # "failed"
            /\ run'[r].pc \in {"delay1000final", "done"} =>
                 (MaskFilled' /\ ~store'.isGenerating)]_vars

\* A completed call with a placed word whose supplier threw.
C12_Witness ==
  \E r \in Runs : /\ run[r].pc = "done"
                  /\ run[r].thrown
                  /\ HasPlacedWord(r)
                  /\ run[r].filledCount > 0

\* C13 (supplier failure with nothing to place): a call with no
\* pre-supplied word in which no word is ever placed does not complete: it
\* ends with the store's error set.
C13_NothingPlacedFails ==
  \A r \in Runs :
    (run[r].pc \in {"delay1000final", "done"} /\ run[r].words = <<>>
       /\ ~HasPlacedWord(r)) => store.error # NoError

\* C14 (configuration error): a generatePuzzle call made with gridWidth or
\* gridHeight zero or negative ends at once with the store's error set and
\* isGenerating false, leaves grid, availablePositions and words as they
\* were, and ingests no mask, places no word and asks no supplier.
C14_ConfigurationError ==
  [][\A r \in Runs :
       (run[r].pc = "idle" /\ run'[r].pc # "idle"
          /\ (store.gridWidth <= 0 \/ store.gridHeight <= 0)) =>
         /\ run'[r].pc \in {"rejected", "failed"}
         /\ store'.error # NoError
         /\ store'.isGenerating = FALSE
         /\ store'.grid = store.grid
         /\ store'.availablePositions = store.availablePositions
         /\ store'.words = store.words
         /\ heap' = heap
         /\ run'[r].ingested = <<>>
         /\ run'[r].requests = 0]_vars

\* A call refused for a negative dimension, with words waiting.
C14_Witness ==
  \E r \in Runs : /\ run[r].pc = "failed"
                  /\ run[r].ingested = <<>>
                  /\ (store.gridWidth < 0 \/ store.gridHeight < 0)
                  /\ store.words # <<>>

\* The call ended because its image did not load.
ImageLoadFailed(r) == run[r].pc = "failed" /\ run[r].gridWidth > 0

\* C15 (image decode error): when the threshold image fails to load the
\* call ends with the store's error set and isGenerating false, nothing is
\* placed and no supplier is asked, and the store's grid is the one from
\* before the call, which for the first call on a store is the empty grid.
C15_ImageDecodeError ==
  \A r \in Runs : ImageLoadFailed(r) =>
    /\ store.error # NoError
    /\ store.isGenerating = FALSE
    /\ run[r].requests = 0
    /\ \A id \in DOMAIN heap : ~heap[id].placed
    /\ StoreGrid = initialState.grid.val

\* C16 (strictly sequential generation): a generatePuzzle call made while
\* another call is suspended and isGenerating is true starts no second
\* run: it reaches no await, does not replace the store's grid and changes
\* no word entry; so at most one run is ever active.
C16_SequentialGeneration ==
  [][(Suspended(1) /\ store.isGenerating
        /\ run[2].pc = "idle" /\ run'[2].pc # "idle") =>
       /\ run'[2].pc \in FinishedPcs
       /\ store'.grid = store.grid
       /\ heap' = heap]_vars

\* The footprint of the word from (row, col) crosses a cell of g that
\* already holds the matching letter: its overlapScore is at least 1.
CrossesLetter(word, row, col, direction, g) ==
  \E i \in 0..(Len(word) - 1) :
    LET p == <<row + i * StatedDelta(direction)[1],
               col + i * StatedDelta(direction)[2]>>
    IN InGrid(p[1], p[2], g) /\ g[p[1]][p[2]].letter = word[i + 1]

\* Some legal position of the word in g has an overlapScore of at least 1.
HasCrossingPosition(word, g, availablePositions) ==
  \E p \in Cells(g) : \E direction \in Range(Directions) :
    /\ LegalPosition(word, p[1], p[2], direction, g, availablePositions)
    /\ CrossesLetter(word, p[1], p[2], direction, g)

\* C17 (overlap preference): whenever a step places a word while some
\* legal position for it crosses a cell already holding the matching
\* letter, the position chosen crosses such a cell too.
C17_OverlapPreference ==
  [][\A r \in Runs : \A id \in DOMAIN heap' :
       (/\ run[r].pc \in LoopPcs
        /\ run'[r].grid # run[r].grid
        /\ heap'[id].placed
        /\ id \in DOMAIN heap => ~heap[id].placed
        /\ HasCrossingPosition(heap'[id].word, run[r].grid,
                               run[r].availablePositions)) =>
         CrossesLetter(heap'[id].word, heap'[id].startRow, heap'[id].startCol,
                       heap'[id].direction, run[r].grid)]_vars

\* The word is longer than every run of cells inside the mask, in all four
\* directions.
Oversized(word, g, availablePositions) ==
  ~\E p \in Cells(g) : \E direction \in Range(Directions) :
     \A i \in 0..(Len(word) - 1) :
       LET q == <<p[1] + i * StatedDelta(direction)[1],
                  p[2] + i * StatedDelta(direction)[2]>>
       IN InGrid(q[1], q[2], g) /\ availablePositions[q[1]][q[2]]

\* C18 (oversized word): in a call whose pre-supplied words are all longer
\* than every run of the mask, during the placement phase the words stay
\* unplaced and, as long as no generated word is added, no cell of the grid
\* differs from what mask ingestion left.
C18_OversizedWord ==
  \A r \in Runs :
    (/\ run[r].pc \in LoopPcs \cup {"fill"}
     /\ run[r].words # <<>>
     /\ run[r].allWords = run[r].words
     /\ \A k \in DOMAIN run[r].words :
          Oversized(heap[run[r].words[k]].word, run[r].grid,
                    run[r].availablePositions)) =>
      /\ \A k \in DOMAIN run[r].words : ~heap[run[r].words[k]].placed
      /\ run[r].grid = run[r].ingested

\* No cell of the run's grid is inside the mask.
FullyUnavailable(r) ==
  \A p \in Cells(run[r].grid) : ~run[r].availablePositions[p[1]][p[2]]

\* C19 (fully unavailable mask): when every entry of the mask is false,
\* from mask ingestion to the end of the call no word is placed, no
\* supplier is asked, and the grid is cell for cell the grid of mask
\* ingestion: every cell holds its noise letter and none is a word letter.
C19_FullyUnavailableMask ==
  \A r \in Runs : (Ingested(r) /\ FullyUnavailable(r)) =>
    /\ \A k \in DOMAIN run[r].allWords : ~heap[run[r].allWords[k]].placed
    /\ run[r].allWords \in {<<>>, run[r].words}
    /\ run[r].requests = 0
    /\ run[r].grid = run[r].ingested
    /\ StoreGrid = run[r].ingested
    /\ \A p \in Cells(StoreGrid) :
         /\ StoreGrid[p[1]][p[2]].letter \in RandLetters
         /\ ~StoreGrid[p[1]][p[2]].isWordLetter

\* A completed call with two words on a 3 x 3 grid with no cell in the mask.
C19_Witness ==
  \E r \in Runs : /\ run[r].pc = "done"
                  /\ FullyUnavailable(r)
                  /\ run[r].gridWidth = 3 /\ run[r].gridHeight = 3
                  /\ Len(run[r].words) = 2
                  /\ store.words = run[r].words

\* Every cell of the run's grid is inside the mask.
FullyAvailable(r) ==
  \A p \in Cells(run[r].grid) : run[r].availablePositions[p[1]][p[2]]

\* The cells of the footprint of a word entry.
Footprint(w) == { FootprintCell(w, i) : i \in 0..(Len(w.word) - 1) }

\* C20 (fully available grid, single word): on a mask that is all true and
\* with exactly one pre-supplied word no longer than the grid is wide, the
\* completed call has placed the word inside the grid, every cell is
\* non-empty, and the cells marked isWordLetter are exactly the L cells of
\* its footprint, which spell the word along its direction.
C20_SingleWordFullGrid ==
  \A r \in Runs :
    (/\ run[r].pc \in {"delay1000final", "done"}
     /\ FullyAvailable(r)
     /\ Len(run[r].words) = 1
     /\ Len(heap[run[r].words[1]].word) <= run[r].gridWidth) =>
      LET w == heap[run[r].words[1]]
      IN /\ w.placed
         /\ store.words = run[r].words
         /\ SpelledIn(w, StoreGrid, store.availablePositions)
         /\ \A p \in Cells(StoreGrid) : StoreGrid[p[1]][p[2]].letter # ""
         /\ { p \in Cells(StoreGrid) : StoreGrid[p[1]][p[2]].isWordLetter }
              = Footprint(w)
         /\ Cardinality(Footprint(w)) = Len(w.word)

\* CAT alone on a fully available 3 x 3 grid, the call completed.
C20_Witness ==
  \E r \in Runs : /\ run[r].pc = "done"
                  /\ FullyAvailable(r)
                  /\ run[r].gridWidth = 3 /\ run[r].gridHeight = 3
                  /\ Len(run[r].words) = 1
                  /\ heap[run[r].words[1]].word = <<"C", "A", "T">>
                  /\ heap[run[r].words[1]].placed

\* C21 (idempotent rescan): for every word placed during a run, at every
\* later point of that run, the space fill included, canPlaceWord at the
\* recorded start cell and direction is true and calculateOverlap there
\* equals the length of the word.
C21_IdempotentRescan ==
  \A r \in Runs : Ingested(r) =>
    \A k \in DOMAIN run[r].allWords :
      LET w == heap[run[r].allWords[k]]
      IN w.placed =>
           /\ canPlaceWord(w.word, w.startRow, w.startCol, w.direction, run[r].grid, run[r].availablePositions)
           /\ calculateOverlap(w.word, w.startRow, w.startCol, w.direction, run[r].grid) = Len(w.word)

\* A completed run with a placed word of three letters and cells written by
\* the space fill around it.
C21_Witness ==
  \E r \in Runs : /\ run[r].pc = "done"
                  /\ run[r].filledCount > 0
                  /\ \E k \in DOMAIN run[r].allWords :
                       /\ heap[run[r].allWords[k]].placed
                       /\ Len(heap[run[r].allWords[k]].word) >= 3

\* C22 (word list order): the word list of a run is in placement order: the
\* pre-supplied words stay at the front in the order given, generated words
\* are appended behind them, and whenever a word becomes placed no word
\* behind it in the list has been placed before it.
C22_WordListOrder ==
  [][\A r \in Runs :
       (Ingested(r) /\ run'[r].ingested = run[r].ingested) =>
         /\ Len(run'[r].allWords) >= Len(run[r].allWords)
         /\ SubSeq(run'[r].allWords, 1, Len(run[r].allWords)) = run[r].allWords
         /\ \A k \in DOMAIN run[r].allWords :
              (~heap[run[r].allWords[k]].placed /\ heap'[run[r].allWords[k]].placed) =>
                \A j \in DOMAIN run[r].allWords :
                  j > k => ~heap[run[r].allWords[j]].placed]_vars

\* The footprint cells of a word from (row, col) in a direction that already
\* hold the letter the word has at that index.
MatchingCells(word, row, col, direction, g) ==
  { i \in 0..(Len(word) - 1) :
      g[row + i * StatedDelta(direction)[1]][col + i * StatedDelta(direction)[2]].letter
        = word[i + 1] }

\* C23 (placement search result): for every word, direction, grid and mask,
\* findAllValidPositions returns exactly the start cells from which every
\* footprint cell is in bounds, available, and empty or holding the word's
\* letter of that index, each once; the overlap of each entry is the number
\* of footprint cells that already hold the matching letter; and the list is
\* in order of non-increasing overlap.
C23_PlacementSearchResult ==
  \A r \in Runs : run[r].pc \in {"batch", "delay300batch", "returned"} =>
    \A word \in BatchWords : \A direction \in Range(Directions) :
      \A found \in { findAllValidPositions(word, direction, run[r].grid,
                                           run[r].availablePositions) } :
        /\ { <<found[k].row, found[k].col>> : k \in DOMAIN found }
             = { p \in Cells(run[r].grid) :
                   LegalPosition(word, p[1], p[2], direction, run[r].grid,
                                 run[r].availablePositions) }
        /\ \A k, j \in DOMAIN found :
             (found[k].row = found[j].row /\ found[k].col = found[j].col) => k = j
        /\ \A k \in DOMAIN found :
             found[k].overlap
               = Cardinality(MatchingCells(word, found[k].row, found[k].col, direction,
                                           run[r].grid))
        /\ \A k, j \in DOMAIN found : k < j => found[k].overlap >= found[j].overlap

\* A grid with a placed word on which the search for some word returns a
\* position that crosses it behind a position earlier in the scan that does
\* not, and leaves out at least one cell.
C23_Witness ==
  \E r \in Runs :
    /\ run[r].pc = "delay300batch"
    /\ \E word \in BatchWords : \E direction \in Range(Directions) :
         LET scanned == PositionsRowMajor(word, direction, run[r].grid,
                                          run[r].availablePositions)
         IN /\ Len(scanned) >= 2
            /\ Len(scanned) < Cardinality(Cells(run[r].grid))
            /\ scanned[1].overlap = 0
            /\ scanned[Len(scanned)].overlap > 0

\* The legal candidates of a word on grid g whose overlap is below the length
\* of the word, as <<row, col, direction>>.
PartialCandidates(word, g, availablePositions) ==
  { c \in Cells(g) \X Range(Directions) :
      /\ LegalPosition(word, c[1][1], c[1][2], c[2], g, availablePositions)
      /\ Cardinality(MatchingCells(word, c[1][1], c[1][2], c[2], g)) < Len(word) }

\* The ids of the words a step of the batch placer has gone through.
BatchProcessed(r) ==
  { run'[r].sortedWords[k] : k \in run[r].next..(run'[r].next - 1) }

\* C24 (batch placer picks a best-overlap position): when the batch placer
\* places a word, the recorded start cell and direction are those of a legal
\* candidate with overlap below the word length whose overlap is the largest
\* among all such candidates of the four directions, and the word is written
\* there; a word for which no such candidate exists stays unplaced, and no
\* cell outside the footprint of a word placed in the step changes.
C24_BatchBestOverlap ==
  [][\A r \in Runs : run[r].pc \in {"batch", "delay300batch"} =>
       LET g == run[r].grid
           mask == run[r].availablePositions
       IN /\ \A id \in BatchProcessed(r) :
               LET w == heap'[id]
                   candidates == PartialCandidates(w.word, g, mask)
               IN IF w.placed
                  THEN /\ <<<<w.startRow, w.startCol>>, w.direction>> \in candidates
                       /\ \A c \in candidates :
                            Cardinality(MatchingCells(w.word, c[1][1], c[1][2], c[2], g))
                              <= Cardinality(MatchingCells(w.word, w.startRow, w.startCol,
                                                           w.direction, g))
                       /\ SpelledIn(w, run'[r].grid, mask)
                  ELSE candidates = {} /\ heap'[id] = heap[id]
          /\ \A p \in Cells(g) :
               run'[r].grid[p[1]][p[2]] # g[p[1]][p[2]] =>
                 \E id \in BatchProcessed(r) : heap'[id].placed /\ p \in Footprint(heap'[id])]_vars

\* The batch placer has placed a second word across a letter of the first
\* although a legal position on empty cells only was, and still is, free.
C24_Witness ==
  \E r \in Runs :
    /\ run[r].pc = "delay300batch"
    /\ run[r].newlyPlacedCount = 2
    /\ run[r].committed.overlap > 0
    /\ \E c \in Cells(run[r].grid) \X Range(Directions) :
         /\ LegalPosition(heap[run[r].sortedWords[2]].word, c[1][1], c[1][2], c[2],
                          run[r].grid, run[r].availablePositions)
         /\ MatchingCells(heap[run[r].sortedWords[2]].word, c[1][1], c[1][2], c[2],
                          run[r].grid) = {}

\* C25 (full-overlap rejection in batch placement): the batch placer never
\* commits a position whose overlap equals the word length; every placement
\* it commits writes at least one cell that was empty; and a word whose only
\* legal positions are positions of full overlap stays unplaced.
C25_FullOverlapRejection ==
  [][\A r \in Runs : run[r].pc \in {"batch", "delay300batch"} =>
       \A id \in BatchProcessed(r) :
         LET w == heap'[id]
             g == run[r].grid
             legal == { c \in Cells(g) \X Range(Directions) :
                          LegalPosition(w.word, c[1][1], c[1][2], c[2], g,
                                        run[r].availablePositions) }
         IN /\ w.placed =>
                 /\ Cardinality(MatchingCells(w.word, w.startRow, w.startCol,
                                              w.direction, g)) # Len(w.word)
                 /\ \E p \in Footprint(w) :
                      /\ g[p[1]][p[2]].letter = ""
                      /\ run'[r].grid[p[1]][p[2]].letter # ""
            /\ (\A c \in legal :
                  Cardinality(MatchingCells(w.word, c[1][1], c[1][2], c[2], g)) = Len(w.word))
                 => ~w.placed]_vars

\* The batch placer has returned with a word left unplaced whose letters
\* stand in the grid, written there as part of a longer word.
C25_Witness ==
  \E r \in Runs :
    /\ run[r].pc = "returned"
    /\ \E id \in DOMAIN heap :
         /\ ~heap[id].placed
         /\ \E c \in Cells(run[r].grid) \X Range(Directions) :
              /\ LegalPosition(heap[id].word, c[1][1], c[1][2], c[2], run[r].grid,
                               run[r].availablePositions)
              /\ Cardinality(MatchingCells(heap[id].word, c[1][1], c[1][2], c[2],
                                           run[r].grid)) = Len(heap[id].word)

\* C26 (overlap tracking by wordIds): after any sequence of placements, the
\* wordIds of every cell has as many entries as there are placed words whose
\* footprint covers the cell, one identifier for each of them.
C26_OverlapTracking ==
  \A r \in Runs : run[r].pc \in {"delay300batch", "returned"} =>
    \A p \in Cells(run[r].grid) :
      Len(run[r].grid[p[1]][p[2]].wordIds)
        = Cardinality({ id \in DOMAIN heap : heap[id].placed /\ p \in Footprint(heap[id]) })

\* The number of consecutive empty available cells from (row, col) along a
\* direction, the cell itself included.
EmptyRun(row, col, direction, g, availablePositions) ==
  LET free(i) == LET p == <<row + i * StatedDelta(direction)[1],
                            col + i * StatedDelta(direction)[2]>>
                 IN /\ InGrid(p[1], p[2], g)
                    /\ availablePositions[p[1]][p[2]]
                    /\ g[p[1]][p[2]].letter = ""
      bound == GridHeightOf(g) + GridWidthOf(g)
  IN CHOOSE n \in 0..bound : (\A i \in 0..(n - 1) : free(i)) /\ ~free(n)

\* The longest run of empty available cells from (row, col).
LongestEmptyRun(row, col, g, availablePositions) ==
  CHOOSE n \in 0..(GridHeightOf(g) + GridWidthOf(g)) :
    /\ \E d \in Range(Directions) : EmptyRun(row, col, d, g, availablePositions) = n
    /\ \A d \in Range(Directions) : EmptyRun(row, col, d, g, availablePositions) <= n

\* C27 (generated words always fit and are always placed): every time the
\* supplier returns a word, the word appended to the list is no longer than
\* 8 and than the longest run of empty available cells from the current
\* cell, it is legal at the current cell in the recorded direction, and it is
\* placed there with placed = true; and no pass of the loop gives up a word,
\* listed or generated, because it could not be placed.
C27_GeneratedWordsFit ==
  [][\A r \in Runs :
       /\ (run[r].pc = "supplier" /\ Len(run'[r].allWords) > Len(run[r].allWords)) =>
            LET w == heap'[run'[r].allWords[Len(run'[r].allWords)]]
                g == run[r].grid
                mask == run[r].availablePositions
            IN /\ Len(run'[r].allWords) = Len(run[r].allWords) + 1
               /\ Len(w.word) <= MaxGeneratedLength
               /\ Len(w.word) <= LongestEmptyRun(run[r].currentRow, run[r].currentCol, g, mask)
               /\ w.placed
               /\ w.startRow = run[r].currentRow /\ w.startCol = run[r].currentCol
               /\ LegalPosition(w.word, w.startRow, w.startCol, w.direction, g, mask)
               /\ SpelledIn(w, run'[r].grid, mask)
               /\ run'[r].lastRequest = "placed"
       /\ run[r].pc = "loop" => run'[r].processedWords = run[r].processedWords]_vars

\* A generated word, cut to the three cells free from the current cell, has
\* been placed.
C27_Witness ==
  \E r \in Runs :
    /\ run[r].pc = "delay300generated"
    /\ LET w == heap[run[r].allWords[Len(run[r].allWords)]]
       IN /\ w.placed
          /\ w.word \notin SupplierWords
          /\ \E s \in SupplierWords : w.word = SubSeq(s, 1, Len(w.word))

\* The cells findNearestEmptyNeighbor may return for a run: available, empty,
\* not visited by the loop, and not the current cell.
NextCellCandidates(me) ==
  { p \in Cells(me.grid) \ { <<me.currentRow, me.currentCol>> } :
      /\ me.availablePositions[p[1]][p[2]]
      /\ me.grid[p[1]][p[2]].letter = ""
      /\ p \notin me.visitedPositions }

\* Chebyshev distance of the cell p from the current cell of a run.
Chebyshev(me, p) ==
  Max(IF p[1] < me.currentRow THEN me.currentRow - p[1] ELSE p[1] - me.currentRow,
      IF p[2] < me.currentCol THEN me.currentCol - p[2] ELSE p[2] - me.currentCol)

\* C28 (next-cell search): at every point of the placement loop,
\* findNearestEmptyNeighbor returns null exactly when
\* no cell other than the current one is available, empty and unvisited;
\* otherwise it returns such a cell, and none of them is nearer to the
\* current cell in Chebyshev distance.
C28_NextCellSearch ==
  \A r \in Runs : run[r].pc \in LoopPcs =>
    \A candidates \in { NextCellCandidates(run[r]) } :
      \A found \in { findNearestEmptyNeighbor(run[r].currentRow, run[r].currentCol,
                                              run[r].grid, run[r].availablePositions,
                                              run[r].visitedPositions) } :
        IF candidates = {}
        THEN found = NoPosition
        ELSE /\ <<found.row, found.col>> \in candidates
             /\ \A p \in candidates :
                  Chebyshev(run[r], <<found.row, found.col>>) <= Chebyshev(run[r], p)

\* After a placement from the current cell the nearest candidate is two or
\* more cells away, behind the letters of the word, and a visited cell and an
\* unavailable cell are in the grid.
C28_Witness ==
  \E r \in Runs :
    /\ run[r].pc = "delay300placed"
    /\ run[r].visitedPositions # {}
    /\ HasLightCell(r)
    /\ NextCellCandidates(run[r]) # {}
    /\ \A p \in NextCellCandidates(run[r]) : Chebyshev(run[r], p) >= 2

\* C29 (word letters belong to listed words): in every state of the store
\* with no call under way, reached by setWords, addWord, removeWord,
\* shuffleWords, a completed generatePuzzle and reset in any order, every
\* cell of the grid marked isWordLetter lies on the footprint of a placed
\* word of the store's list.
C29_WordLettersListed ==
  NoActiveRun =>
    (StoreGrid # <<>> =>
       \A p \in Cells(StoreGrid) :
         StoreGrid[p[1]][p[2]].isWordLetter =>
           \E k \in DOMAIN store.words :
             /\ heap[store.words[k]].placed
             /\ p \in Footprint(heap[store.words[k]]))

\* C30 (grid dimensions track the configuration): in every state of the
\* store with positive paperWidth, paperHeight and charactersPerMm, from the
\* initial one on and after setPaperDimensions, setCharactersPerMm and
\* reset, gridWidth = floor(paperWidth / charactersPerMm) and gridHeight =
\* floor(paperHeight / charactersPerMm), and no call is refused for grid
\* dimensions that are not set.
C30_GridTracksConfiguration ==
  (store.paperWidth > 0 /\ store.paperHeight > 0 /\ store.charactersPerMm > 0) =>
    /\ store.gridWidth = store.paperWidth \div store.charactersPerMm
    /\ store.gridHeight = store.paperHeight \div store.charactersPerMm
    /\ \A r \in Runs :
         (store.paperWidth = DefaultPaperWidth /\ store.paperHeight = DefaultPaperHeight) =>
           run[r].pc # "rejected"

====
